---- MODULE Spec2Model ----
(***************************************************************************)
(* Model of the character detail route (app/routes/characters.$id.tsx):    *)
(* the loader that fans out one deferred and two critical GraphQL queries, *)
(* the pMinDelay floor around the deferred query, the Promise.all join,    *)
(* and the Character component that renders the loader data with           *)
(* Suspense/Await around the deferred episodes promise.                    *)
(*                                                                         *)
(* Time is discrete.  One action is one macrotask of the JavaScript event  *)
(* loop (a loader call, a network response, a timer callback, a render);   *)
(* the promise reactions a macrotask triggers (microtasks) run to          *)
(* completion inside the same action and take no time.  Timers are         *)
(* punctual: time does not advance past a due timer.                       *)
(***************************************************************************)
EXTENDS Integers, Sequences, FiniteSets, TLC

\* ------------------------------------------------------------------ bounds
TimeStep == 1000
MaxTime == 4000
MaxEpisodes == 5
MaxCalls == 2

\* ------------------------------------------------------- program constants
Floor == 2000
PlaceholderCount == 4
EpisodeCap == 4

Queries == {"episodes", "character", "locations"}

\* The queries joined by Promise.all.
Critical == {"character", "locations"}

Max(a, b) == IF a >= b THEN a ELSE b

\* ------------------------------------------------------------------ inputs
\* params.id as the loader receives it: a string, or undefined.
ParamsSet ==
  { [defined |-> TRUE, id |-> "2"],
    [defined |-> TRUE, id |-> ""],
    [defined |-> FALSE, id |-> ""] }

EpisodeIds == <<"1", "2", "3", "4", "5", "6", "7", "8">>
EpisodeNames == <<"Pilot", "Lawnmower Dog", "Anatomy Park", "M. Night Shaym-Aliens!",
                  "Meeseeks and Destroy", "Rick Potion #9", "Raising Gazorpazorp",
                  "Rixty Minutes">>

Episodes(n) == [i \in 1..n |-> [id |-> EpisodeIds[i], name |-> EpisodeNames[i]]]

\* json.data of a response, as far as the route reads it: data, then the
\* entity under it (character / locations), then the list under the entity
\* (episode / results).  Each level is an object/array or nullish.
Payload(d, e, l, items) == [data |-> d, entity |-> e, list |-> l, items |-> items]

NoPayload == Payload("nullish", "nullish", "nullish", <<>>)

EpisodePayloads ==
  { NoPayload,
    Payload("object", "nullish", "nullish", <<>>),
    Payload("object", "object", "nullish", <<>>) }
  \cup { Payload("object", "object", "array", Episodes(n)) : n \in 0..MaxEpisodes }

CharacterPayloads ==
  { NoPayload,
    Payload("object", "nullish", "nullish", <<>>),
    Payload("object", "object", "nullish", <<>>) }

LocationNames == <<[id |-> "", name |-> "Earth (C-137)"], [id |-> "", name |-> "Abadango"]>>

LocationPayloads ==
  { NoPayload,
    Payload("object", "nullish", "nullish", <<>>),
    Payload("object", "object", "array", LocationNames) }

PayloadsOf(q) ==
  IF q = "episodes" THEN EpisodePayloads
  ELSE IF q = "character" THEN CharacterPayloads
  ELSE LocationPayloads

\* ------------------------------------------------------------------- state
VARIABLES
  now,              \* current time in ms
  params,           \* params of the request being served
  issued,           \* the queries handed to context.rickAndMorty.query, in order
  fetch,            \* per query: the promise returned by query()
  timer,            \* the delay(2000) timer inside pMinDelay
  episodesPromise,  \* the promise pMinDelay returns (the deferred handle)
  all,              \* the promise Promise.all returns
  loader,           \* the loader invocation: position and outcome
  view,             \* what the Character route currently shows
  gateway           \* the Rick & Morty client: its calls and its cache

vars == <<now, params, issued, fetch, timer, episodesPromise, all, loader, view, gateway>>

IdleFetch == [state |-> "idle", data |-> NoPayload, at |-> 0]

NoSection == [kind |-> "none", entries |-> <<>>]

Init ==
  /\ now = 0
  /\ params = [defined |-> FALSE, id |-> ""]
  /\ issued = <<>>
  /\ fetch = [q \in Queries |-> IdleFetch]
  /\ timer = [state |-> "unset", start |-> 0, firedAt |-> 0]
  /\ episodesPromise = [state |-> "none", value |-> NoPayload, at |-> 0]
  /\ all = [state |-> "none", reason |-> "none", at |-> 0]
  /\ loader = [pc |-> "init", error |-> "none", character |-> "none",
               locations |-> NoPayload, deferred |-> FALSE, at |-> 0]
  /\ view = [page |-> "none", saw |-> "none", section |-> NoSection]
  /\ gateway = [build |-> "none", requests |-> <<>>, responses |-> <<>>,
               calls |-> <<>>, cache |-> {}]

\* --------------------------------------------------------- query gateway
Settled == {"fulfilled", "rejected"}

\* One call of context.rickAndMorty.query(document, {variables, cache}):
\* the request goes out at once and is logged with the variables it carries.
Query(log, q, withId, p) ==
  Append(log, [q |-> q, withId |-> withId,
               id |-> IF withId THEN p ELSE [defined |-> FALSE, id |-> ""]])

Respond_IgnoresStatus(f, q, ok, payload, t) ==
  [f EXCEPT ![q] = [state |-> "fulfilled", data |-> payload, at |-> t]]

\* The promise of a query once its response is in: json.data on an ok
\* response, a thrown Error otherwise.
Respond(f, q, ok, payload, t) ==
  [f EXCEPT ![q] = IF ok THEN [state |-> "fulfilled", data |-> payload, at |-> t]
                         ELSE [state |-> "rejected", data |-> NoPayload, at |-> t]]

\* ---------------------------------------------------------------- pMinDelay
\* The delay(minimumDelay) timer is set when pMinDelay is called.
TimerDue_Sequential(t, f, time) ==
  /\ t.state = "armed"
  /\ f.state \in Settled
  /\ time >= f.at + Floor

TimerDue(t, f, time) ==
  /\ t.state = "armed"
  /\ time >= t.start + Floor

\* Promise.all([promise, delay(minimumDelay)]) inside pMinDelay.
PMinDelayReady_NoFloor(f, t) == f.state \in Settled

PMinDelayReady(f, t) == f.state \in Settled /\ t.state = "fired"

\* The promise pMinDelay returns: it takes the outcome of the wrapped promise
\* (value or, with the default delayRejection, error) once both are in.
PMinDelay_Race(h, f, t, time) ==
  IF t.state = "fired" /\ f.state = "inflight" /\ h.state = "pending"
  THEN [state |-> "fulfilled", value |-> NoPayload, at |-> time]
  ELSE IF f.state \in Settled /\ t.state = "fired" /\ (h.state # f.state \/ h.value # f.data)
  THEN [state |-> f.state, value |-> f.data, at |-> time]
  ELSE h

PMinDelay_NoDelayRejection(h, f, t, time) ==
  IF h.state = "pending" /\ (f.state = "rejected" \/ (f.state = "fulfilled" /\ t.state = "fired"))
  THEN [state |-> f.state, value |-> f.data, at |-> time]
  ELSE h

PMinDelay_Timeout(h, f, t, time) ==
  IF h.state = "pending" /\ t.state = "fired" /\ f.state = "inflight"
  THEN [state |-> "rejected", value |-> NoPayload, at |-> time]
  ELSE IF h.state = "pending" /\ f.state \in Settled /\ t.state = "fired"
  THEN [state |-> f.state, value |-> f.data, at |-> time]
  ELSE h

PMinDelay(h, f, t, time) ==
  IF h.state = "pending" /\ PMinDelayReady(f, t)
  THEN [state |-> f.state, value |-> f.data, at |-> time]
  ELSE h

\* ------------------------------------------------------------------ loader
\* Promise.all([characterPromise, locationsPromise]): rejects with the first
\* rejection, fulfils when every member has fulfilled.
PromiseAll_IncludesDeferred(a, f, time) ==
  IF a.state # "pending" THEN a
  ELSE IF \E q \in Queries : f[q].state = "rejected"
  THEN [state |-> "rejected",
        reason |-> CHOOSE q \in Queries : f[q].state = "rejected", at |-> time]
  ELSE IF \A q \in Queries : f[q].state = "fulfilled"
  THEN [state |-> "fulfilled", reason |-> "none", at |-> time]
  ELSE a

PromiseAll_AllSettled(a, f, time) ==
  IF a.state # "pending" THEN a
  ELSE IF \A q \in Critical : f[q].state \in Settled
  THEN [state |-> "fulfilled", reason |-> "none", at |-> time]
  ELSE a

\* Promise.all replaced by a join that reports a rejection only after every
\* critical fetch has settled.
PromiseAll_WaitsForAll(a, f, time) ==
  IF a.state # "pending" THEN a
  ELSE IF \E q \in Critical : f[q].state \notin Settled THEN a
  ELSE IF \E q \in Critical : f[q].state = "rejected"
  THEN [state |-> "rejected",
        reason |-> CHOOSE q \in Critical : f[q].state = "rejected", at |-> time]
  ELSE [state |-> "fulfilled", reason |-> "none", at |-> time]

PromiseAll(a, f, time) ==
  IF a.state # "pending" THEN a
  ELSE IF \E q \in Critical : f[q].state = "rejected"
  THEN [state |-> "rejected",
        reason |-> CHOOSE q \in Critical : f[q].state = "rejected", at |-> time]
  ELSE IF \A q \in Critical : f[q].state = "fulfilled"
  THEN [state |-> "fulfilled", reason |-> "none", at |-> time]
  ELSE a

\* What the loader's single await waits for.
AwaitDone_AlsoDeferred(a, h) == a.state \in Settled /\ h.state \in Settled

AwaitDone_Floored(a, h) == a.state \in Settled /\ now >= timer.start + Floor

AwaitDone(a, h) == a.state \in Settled

\* The loader after its await: the rejection is rethrown; otherwise the two
\* results are destructured (a TypeError on a nullish data) and handed to defer.
LoaderContinue(l, a, h, f, time) ==
  IF l.pc # "awaiting" \/ ~AwaitDone(a, h) THEN l
  ELSE IF a.state = "rejected"
  THEN [l EXCEPT !.pc = "threw", !.error = "FetchError", !.at = time]
  ELSE IF f["character"].data.data = "nullish" \/ f["locations"].data.data = "nullish"
  THEN [l EXCEPT !.pc = "threw", !.error = "TypeError", !.at = time]
  ELSE [pc |-> "returned", error |-> "none",
        character |-> f["character"].data.entity,
        locations |-> f["locations"].data,
        deferred |-> TRUE, at |-> time]

\* ---------------------------------------------------------------- renderer
PlaceholderEpisode == [id |-> "", name |-> "Loading..."]

PlaceholderNodes_Three == [i \in 1..(PlaceholderCount - 1) |-> PlaceholderEpisode]

PlaceholderNodes == [i \in 1..PlaceholderCount |-> PlaceholderEpisode]

Slice_Last(s, n) == SubSeq(s, IF Len(s) < n THEN 1 ELSE Len(s) - n + 1, Len(s))

Slice(s, n) == SubSeq(s, 1, IF Len(s) < n THEN Len(s) ELSE n)

ListItem(episode, index) ==
  [id |-> episode.id, index |-> index, name |-> episode.name,
   background |-> IF episode.id # "" THEN "white" ELSE "#eee"]

\* EpisodesGrid({episodes}): given is FALSE when the prop is left out.
EpisodesGrid(given, episodes) ==
  LET episodeNodes == IF ~given \/ Len(episodes) = 0 THEN PlaceholderNodes ELSE episodes
      shown == Slice(episodeNodes, EpisodeCap)
  IN  [kind |-> "grid", entries |-> [i \in 1..Len(shown) |-> ListItem(shown[i], i - 1)]]

NoEpisodes == [kind |-> "noEpisodes", entries |-> <<>>]

ErrorElement == [kind |-> "error", entries |-> <<>>]

\* data?.character?.episode is truthy (an array is, also when empty).
HasEpisode(data) == data.data = "object" /\ data.entity = "object" /\ data.list = "array"

\* The render callback of <Await>.
AwaitChildren(data) ==
  IF ~HasEpisode(data) THEN NoEpisodes ELSE EpisodesGrid(TRUE, data.items)

\* <Suspense fallback={<EpisodesGrid />}><Await resolve errorElement>.
SuspenseAwait(h) ==
  IF h.state = "pending" THEN EpisodesGrid(FALSE, <<>>)
  ELSE IF h.state = "rejected" THEN ErrorElement
  ELSE AwaitChildren(h.value)

ErrorPage == [page |-> "errorPage", saw |-> "none", section |-> NoSection]

\* The route: the error boundary when the loader threw or the component
\* throws on a null character or locations, the page otherwise.
RenderRoute(l, h) ==
  IF l.pc = "threw" THEN ErrorPage
  ELSE IF l.character # "object" THEN ErrorPage
  ELSE IF l.locations.entity # "object" \/ l.locations.list # "array" THEN ErrorPage
  ELSE [page |-> "page", saw |-> h.state, section |-> SuspenseAwait(h)]

\* Drain with the deferred fetch aborted in the step in which the loader fails.
Drain_AbortsDeferred(f2, t2) ==
  LET h2 == PMinDelay(episodesPromise, f2["episodes"], t2, now)
      a2 == PromiseAll(all, f2, now)
      l2 == LoaderContinue(loader, a2, h2, f2, now)
      f3 == IF l2.pc = "threw" /\ f2["episodes"].state = "inflight"
            THEN Respond(f2, "episodes", FALSE, NoPayload, now)
            ELSE f2
  IN  /\ fetch' = f3
      /\ timer' = t2
      /\ episodesPromise' = h2
      /\ all' = a2
      /\ loader' = l2

\* ----------------------------------------------------------------- actions
\* The promise reactions that follow a macrotask, run to completion.
Drain(f2, t2) ==
  LET h2 == PMinDelay(episodesPromise, f2["episodes"], t2, now)
      a2 == PromiseAll(all, f2, now)
  IN  /\ fetch' = f2
      /\ timer' = t2
      /\ episodesPromise' = h2
      /\ all' = a2
      /\ loader' = LoaderContinue(loader, a2, h2, f2, now)

LoaderCall_Sequential ==
  /\ loader.pc = "init"
  /\ \E p \in ParamsSet :
       /\ params' = p
       /\ issued' = Query(Query(issued, "episodes", TRUE, p), "character", TRUE, p)
  /\ fetch' = [q \in Queries |->
                 IF q = "locations" THEN IdleFetch
                 ELSE [IdleFetch EXCEPT !.state = "inflight"]]
  /\ timer' = [state |-> "armed", start |-> now, firedAt |-> 0]
  /\ episodesPromise' = [state |-> "pending", value |-> NoPayload, at |-> 0]
  /\ all' = [state |-> "pending", reason |-> "none", at |-> 0]
  /\ loader' = [loader EXCEPT !.pc = "awaiting"]
  /\ UNCHANGED <<now, view, gateway>>

\* loader({context, params}) up to its await.
LoaderCall ==
  /\ loader.pc = "init"
  /\ \E p \in ParamsSet :
       /\ params' = p
       /\ issued' = Query(Query(Query(issued, "episodes", TRUE, p),
                                "character", TRUE, p),
                          "locations", FALSE, p)
  /\ fetch' = [q \in Queries |-> [IdleFetch EXCEPT !.state = "inflight"]]
  /\ timer' = [state |-> "armed", start |-> now, firedAt |-> 0]
  /\ episodesPromise' = [state |-> "pending", value |-> NoPayload, at |-> 0]
  /\ all' = [state |-> "pending", reason |-> "none", at |-> 0]
  /\ loader' = [loader EXCEPT !.pc = "awaiting"]
  /\ UNCHANGED <<now, view, gateway>>

\* The upstream answers a query with an ok response carrying a payload.
FetchFulfil ==
  /\ \E q \in Queries :
       /\ fetch[q].state = "inflight"
       /\ \E payload \in PayloadsOf(q) : Drain(Respond(fetch, q, TRUE, payload, now), timer)
  /\ UNCHANGED <<now, params, issued, view, gateway>>

FetchReject_Retry ==
  /\ \E q \in Queries :
       /\ fetch[q].state = "inflight"
       /\ Len(issued) < 6
       /\ issued' = Append(issued, issued[CHOOSE i \in 1..Len(issued) : issued[i].q = q])
  /\ UNCHANGED <<now, params, fetch, timer, episodesPromise, all, loader, view, gateway>>

\* The upstream answers a query with a non-ok response.
FetchReject ==
  /\ \E q \in Queries :
       /\ fetch[q].state = "inflight"
       /\ Drain(Respond(fetch, q, FALSE, NoPayload, now), timer)
  /\ UNCHANGED <<now, params, issued, view, gateway>>

\* The delay timer of pMinDelay fires.
TimerFire ==
  /\ TimerDue(timer, fetch["episodes"], now)
  /\ Drain(fetch, [timer EXCEPT !.state = "fired", !.firedAt = now])
  /\ UNCHANGED <<now, params, issued, view, gateway>>

\* The route renders, or re-renders when the awaited promise has settled.
Render ==
  /\ loader.pc \in {"returned", "threw"}
  /\ view # RenderRoute(loader, episodesPromise)
  /\ view' = RenderRoute(loader, episodesPromise)
  /\ UNCHANGED <<now, params, issued, fetch, timer, episodesPromise, all, loader, gateway>>

Busy ==
  \/ loader.pc = "init"
  \/ \E q \in Queries : fetch[q].state = "inflight"
  \/ timer.state = "armed"

Tick ==
  /\ Busy
  /\ now + TimeStep <= MaxTime \/ timer.state = "armed"
  /\ ~TimerDue(timer, fetch["episodes"], now)
  /\ now' = now + TimeStep
  /\ UNCHANGED <<params, issued, fetch, timer, episodesPromise, all, loader, view, gateway>>

Next ==
  \/ LoaderCall
  \/ FetchFulfil
  \/ FetchReject
  \/ TimerFire
  \/ Render
  \/ Tick

Spec == Init /\ [][Next]_vars

\* Time passes and a due timer callback runs: the event loop's guarantees.
FairSpec == Spec /\ WF_vars(Tick) /\ WF_vars(TimerFire)

\* ------------------------------------------------------------------ claims
CriticalResolved == \A q \in Critical : fetch[q].state = "fulfilled"

\* Both critical responses carry a data object the loader can destructure.
CriticalOk == CriticalResolved /\ \A q \in Critical : fetch[q].data.data = "object"

LastCriticalAt == Max(fetch["character"].at, fetch["locations"].at)

ValidRequest == params.defined /\ params.id # ""

Renderable(l) ==
  l.character = "object" /\ l.locations.entity = "object" /\ l.locations.list = "array"

\* Episode data the grid can show: a non-empty episode list.
Usable(data) == HasEpisode(data) /\ Len(data.items) > 0

\* C1: the loader leaves its await in the very step in which the last
\* critical fetch resolves, at that time, whatever the state of the deferred
\* fetch, its floor timer and the deferred promise; with destructurable data
\* it has then returned.
C1_ReturnsWithoutWaiting ==
  /\ CriticalResolved => loader.pc \in {"returned", "threw"} /\ loader.at = LastCriticalAt
  /\ CriticalOk => loader.pc = "returned" /\ loader.deferred
  /\ loader.pc = "returned" => CriticalOk

\* The loader has returned for a valid request while the deferred query is
\* still in flight and the deferred promise pending.
C1_Witness ==
  /\ ValidRequest
  /\ loader.pc = "returned"
  /\ fetch["episodes"].state = "inflight"
  /\ timer.state = "armed"
  /\ episodesPromise.state = "pending"

\* C2: the deferred promise is never fulfilled earlier than 2000 ms after
\* pMinDelay wrapped the deferred query.
C2_FloorRespected ==
  episodesPromise.state = "fulfilled" => episodesPromise.at >= timer.start + Floor

\* The deferred query was answered with episodes in the instant it was
\* issued, and the deferred promise is fulfilled.
C2_Witness ==
  /\ episodesPromise.state = "fulfilled"
  /\ Usable(episodesPromise.value)
  /\ fetch["episodes"].at = timer.start

\* C3: the deferred promise settles at the later of the floor timer's firing
\* and the deferred fetch's completion, the timer fires at the first instant
\* at or after the floor, and a fetch that completes once the floor has
\* elapsed settles the promise at its own completion time.
C3_NoExtraDelay ==
  episodesPromise.state \in Settled =>
    /\ episodesPromise.at = Max(timer.firedAt, fetch["episodes"].at)
    /\ timer.firedAt >= timer.start + Floor
    /\ timer.firedAt < timer.start + Floor + TimeStep
    /\ (fetch["episodes"].at >= timer.start + Floor
          => episodesPromise.at = fetch["episodes"].at)

\* The deferred fetch completed strictly after the floor timer fired and the
\* deferred promise has settled.
C3_Witness ==
  /\ episodesPromise.state \in Settled
  /\ timer.state = "fired"
  /\ fetch["episodes"].at > timer.firedAt

\* The loader outcome the critical responses alone determine.
CriticalReturn ==
  [pc |-> "returned", error |-> "none",
   character |-> fetch["character"].data.entity,
   locations |-> fetch["locations"].data,
   deferred |-> TRUE, at |-> LastCriticalAt]

\* C4: once the deferred fetch has rejected, the deferred promise is pending
\* or rejected, the loader still returns exactly what the critical responses
\* determine whenever they succeed, the page is rendered from it, and the
\* rejection shows only as the error element of the deferred section.
C4_DeferredRejectionIsolated ==
  fetch["episodes"].state = "rejected" =>
    /\ episodesPromise.state \in {"pending", "rejected"}
    /\ (CriticalOk => loader = CriticalReturn)
    /\ (CriticalOk /\ Renderable(loader) /\ view.page # "none" => view.page = "page")
    /\ (view.page = "page" /\ view.saw = "rejected" => view.section = ErrorElement)

\* The deferred fetch rejected before the critical fetches resolved; the
\* loader returned all the same and the page shows the error element.
C4_Witness ==
  /\ fetch["episodes"].state = "rejected"
  /\ fetch["episodes"].at < LastCriticalAt
  /\ CriticalOk
  /\ loader.pc = "returned"
  /\ episodesPromise.state = "rejected"
  /\ view.page = "page"
  /\ view.section = ErrorElement

\* C5: when a critical fetch has rejected the loader has thrown that fetch
\* error, carries no character, no locations and no deferred promise, and no
\* page is rendered.
C5_CriticalRejectionFailsLoader ==
  (\E q \in Critical : fetch[q].state = "rejected") =>
    /\ loader.pc = "threw"
    /\ loader.error = "FetchError"
    /\ loader.character = "none"
    /\ loader.locations = NoPayload
    /\ ~loader.deferred
    /\ view.page # "page"

\* The character query succeeded with a character, the locations query then
\* rejected, and the loader threw.
C5_Witness ==
  /\ fetch["character"].state = "fulfilled"
  /\ fetch["character"].data.entity = "object"
  /\ fetch["locations"].state = "rejected"
  /\ fetch["character"].at < fetch["locations"].at
  /\ loader.pc = "threw"
  /\ view.page = "errorPage"

\* C6: a loader called without an id (undefined or empty) has thrown
\* MissingParameter and has issued no query.
C6_MissingParameterBeforeFetch ==
  (loader.pc # "init" /\ ~ValidRequest) =>
    /\ issued = <<>>
    /\ \A q \in Queries : fetch[q].state = "idle"
    /\ loader.pc = "threw"
    /\ loader.error = "MissingParameter"

\* C7: a page rendered from a deferred promise fulfilled without usable
\* episode data shows the NoEpisodes section.
C7_EmptyShowsNoEpisodes ==
  (view.page = "page" /\ view.saw = "fulfilled" /\ ~Usable(episodesPromise.value))
    => view.section = NoEpisodes

\* The state of the deferred handle.
HandleState(h) ==
  IF h.state = "none" THEN "None"
  ELSE IF h.state = "pending" THEN "Pending"
  ELSE IF h.state = "rejected" THEN "Failed"
  ELSE IF Usable(h.value) THEN "Resolved"
  ELSE "Empty"

Terminal == {"Resolved", "Empty", "Failed"}

\* C8: the deferred handle starts Pending, a Pending handle stays Pending or
\* moves to one of Resolved, Empty, Failed, and a handle in one of these three
\* never changes again (neither its state nor its value).
C8_HandleStateMachine ==
  [][ /\ (HandleState(episodesPromise) = "None"
            => HandleState(episodesPromise') \in {"None", "Pending"})
      /\ (HandleState(episodesPromise) = "Pending"
            => HandleState(episodesPromise') \in {"Pending"} \cup Terminal)
      /\ (HandleState(episodesPromise) \in Terminal
            => episodesPromise' = episodesPromise) ]_vars

\* The floor timer fired while the deferred fetch was in flight, the fetch
\* completed later, and the handle is in a terminal state.
C8_Witness ==
  /\ HandleState(episodesPromise) \in Terminal
  /\ timer.state = "fired"
  /\ timer.firedAt < fetch["episodes"].at

\* C9: a rendered page shows a grid of real entries for populated data, the
\* NoEpisodes section for a fulfilled promise without usable data, and the
\* error element for a rejected promise.
C9_DistinctRenderedStates ==
  view.page = "page" =>
    /\ (view.saw = "fulfilled" /\ Usable(episodesPromise.value)
          => /\ view.section.kind = "grid"
             /\ \A i \in 1..Len(view.section.entries) : view.section.entries[i].id # "")
    /\ (view.saw = "fulfilled" /\ ~Usable(episodesPromise.value)
          => view.section = NoEpisodes)
    /\ (view.saw = "rejected" => view.section = ErrorElement)

\* C10: a page rendered while the deferred promise is pending shows a grid of
\* exactly 4 entries, each with an empty id and the name 'Loading...'; and
\* once the loader has returned, the first render is enabled whatever the
\* state of the deferred promise, and yields the page when the critical data
\* is renderable.
C10_PlaceholderWhilePending ==
  /\ (view.page = "page" /\ view.saw = "pending") =>
       /\ view.section.kind = "grid"
       /\ Len(view.section.entries) = 4
       /\ \A i \in 1..Len(view.section.entries) :
            /\ view.section.entries[i].id = ""
            /\ view.section.entries[i].name = "Loading..."
            /\ view.section.entries[i].background = "#eee"
  /\ (loader.pc = "returned" /\ view.page = "none") =>
       /\ ENABLED Render
       /\ (Renderable(loader) => RenderRoute(loader, episodesPromise).page = "page")

\* The page is on screen with the placeholder grid while the deferred promise
\* is still pending.
C10_Witness ==
  /\ view.page = "page"
  /\ view.saw = "pending"
  /\ episodesPromise.state = "pending"
  /\ view.section = EpisodesGrid(FALSE, <<>>)

Min(a, b) == IF a <= b THEN a ELSE b

\* C11: a page rendered from a deferred promise fulfilled with N >= 1
\* episodes shows a grid of exactly min(N, 4) entries, the i-th entry being
\* the i-th episode (same id and name, index i - 1), none of them a
\* placeholder.
C11_FirstFourInOrder ==
  (view.page = "page" /\ view.saw = "fulfilled" /\ Usable(episodesPromise.value)) =>
    LET episode == episodesPromise.value.items
        entries == view.section.entries
    IN  /\ view.section.kind = "grid"
        /\ Len(entries) = Min(Len(episode), 4)
        /\ \A i \in 1..Len(entries) :
             /\ entries[i].id = episode[i].id
             /\ entries[i].name = episode[i].name
             /\ entries[i].index = i - 1
             /\ entries[i].id # ""
             /\ entries[i].name # "Loading..."

\* The deferred promise is fulfilled with more than 4 episodes and the page
\* shows the grid with 4 of them.
C11_Witness ==
  /\ view.page = "page"
  /\ view.saw = "fulfilled"
  /\ Len(episodesPromise.value.items) > 4
  /\ Len(view.section.entries) = 4

\* The position of query q in the log of issued queries (0 when absent).
IssuedAt(q) ==
  IF \E i \in 1..Len(issued) : issued[i].q = q
  THEN CHOOSE i \in 1..Len(issued) : issued[i].q = q
  ELSE 0

\* C12: from the moment the loader waits, the character and the locations
\* query have both been issued (neither is idle); the loader keeps waiting
\* until the join settles, which takes both to have resolved; and a returned
\* loader has both results, returned no earlier than either.
C12_FanOutFanIn ==
  /\ loader.pc # "init" =>
       \A q \in Critical : IssuedAt(q) > 0 /\ fetch[q].state # "idle"
  /\ loader.pc = "awaiting" => all.state = "pending" /\ ~CriticalResolved
  /\ all.state = "fulfilled" => CriticalResolved
  /\ loader.pc = "returned" =>
       /\ CriticalResolved
       /\ \A q \in Critical : loader.at >= fetch[q].at

\* The locations query, issued last, completed strictly before the character
\* query, and the loader returned when the character query completed.
C12_Witness ==
  /\ loader.pc = "returned"
  /\ IssuedAt("character") < IssuedAt("locations")
  /\ fetch["locations"].at < fetch["character"].at
  /\ loader.at = fetch["character"].at

\* C13: when the character query resolves with a null character (and the
\* locations query resolves), the loader has thrown instead of returning, and
\* no page is rendered.
C13_NullCharacterFailsLoader ==
  (/\ CriticalOk
   /\ fetch["character"].data.entity = "nullish") =>
    /\ loader.pc = "threw"
    /\ ~loader.deferred
    /\ view.page # "page"

\* C16: the loader leaves its await at the time the join of the critical
\* fetches settles, and the join settles at the completion time of the last
\* critical fetch (or of the rejecting one): the 2000 ms floor never pads it.
C16_FloorNotOnCriticalPath ==
  /\ all.state \in Settled => loader.pc \in {"returned", "threw"} /\ loader.at = all.at
  /\ all.state = "fulfilled" => all.at = LastCriticalAt
  /\ all.state = "rejected" => all.at = fetch[all.reason].at
  /\ loader.pc = "returned" => loader.at = LastCriticalAt

\* The loader returned before the floor had elapsed, the floor timer still
\* armed.
C16_Witness ==
  /\ loader.pc = "returned"
  /\ timer.state = "armed"
  /\ loader.at < timer.start + Floor
  /\ loader.at = LastCriticalAt

\* How often query q was handed to the gateway.
IssueCount(q) == Cardinality({i \in 1..Len(issued) : issued[i].q = q})

\* C17: nothing is issued before the loader is called, and from then on each
\* of the three queries has been issued exactly once, whatever has failed
\* since.
C17_NoRetry ==
  /\ loader.pc = "init" => issued = <<>>
  /\ loader.pc # "init" => Len(issued) = 3 /\ \A q \in Queries : IssueCount(q) = 1

\* Every fetch has settled, the deferred and a critical one by rejecting, the
\* loader has thrown, and still each query was issued once.
C17_Witness ==
  /\ \A q \in Queries : fetch[q].state \in Settled
  /\ fetch["episodes"].state = "rejected"
  /\ fetch["character"].state = "rejected"
  /\ loader.pc = "threw"
  /\ \A q \in Queries : IssueCount(q) = 1

\* C20: the deferred promise is rejected only once the floor timer has fired,
\* no earlier than 2000 ms after the wrap; while the deferred fetch has
\* rejected and the timer is still armed the promise is pending and a
\* rendered page keeps showing the placeholder grid; the error element is
\* never shown from a promise whose timer has not fired.
C20_RejectionWaitsForFloor ==
  /\ episodesPromise.state = "rejected" =>
       /\ timer.state = "fired"
       /\ episodesPromise.at >= timer.start + Floor
  /\ (fetch["episodes"].state = "rejected" /\ timer.state = "armed") =>
       /\ episodesPromise.state = "pending"
       /\ (view.page = "page" =>
             view.saw = "pending" /\ view.section = EpisodesGrid(FALSE, <<>>))
  /\ (view.page = "page" /\ view.section = ErrorElement) => timer.state = "fired"

\* The deferred fetch rejected before the floor elapsed; the timer is still
\* armed, the promise pending and the page on screen with the placeholders.
C20_Witness ==
  /\ fetch["episodes"].state = "rejected"
  /\ fetch["episodes"].at < timer.start + Floor
  /\ timer.state = "armed"
  /\ episodesPromise.state = "pending"
  /\ view.page = "page"
  /\ view.section = EpisodesGrid(FALSE, <<>>)

\* C18: the deferred promise is settled only with the outcome of the deferred
\* fetch itself (same state, same value), so it is pending for as long as the
\* fetch is in flight, also after the floor timer has fired; and once the
\* fetch has settled the promise eventually settles.
C18_PaddingNotTimeout ==
  /\ [](episodesPromise.state \in Settled =>
          /\ fetch["episodes"].state = episodesPromise.state
          /\ fetch["episodes"].data = episodesPromise.value)
  /\ [](fetch["episodes"].state = "inflight" => episodesPromise.state = "pending")
  /\ (fetch["episodes"].state \in Settled ~> episodesPromise.state \in Settled)

\* The floor timer fired a while ago, the deferred fetch is still in flight
\* and the deferred promise still pending.
C18_Witness ==
  /\ timer.state = "fired"
  /\ now > timer.firedAt
  /\ fetch["episodes"].state = "inflight"
  /\ episodesPromise.state = "pending"

\* The deferred promise as determined by the deferred fetch and the floor
\* timer alone.
HandleOf(f, t) ==
  IF t.state = "unset" THEN [state |-> "none", value |-> NoPayload, at |-> 0]
  ELSE IF f.state \in Settled /\ t.state = "fired"
  THEN [state |-> f.state, value |-> f.data, at |-> Max(f.at, t.firedAt)]
  ELSE [state |-> "pending", value |-> NoPayload, at |-> 0]

\* The loader's position and outcome as determined by the two critical
\* fetches alone.
LoaderOf(fc, fl) ==
  LET blank == [pc |-> "init", error |-> "none", character |-> "none",
                locations |-> NoPayload, deferred |-> FALSE, at |-> 0]
      firstRejection ==
        IF fc.state = "rejected" /\ fl.state = "rejected" THEN Min(fc.at, fl.at)
        ELSE IF fc.state = "rejected" THEN fc.at
        ELSE fl.at
  IN  IF fc.state = "idle" THEN blank
      ELSE IF fc.state = "rejected" \/ fl.state = "rejected"
      THEN [blank EXCEPT !.pc = "threw", !.error = "FetchError", !.at = firstRejection]
      ELSE IF fc.state = "fulfilled" /\ fl.state = "fulfilled"
      THEN IF fc.data.data = "nullish" \/ fl.data.data = "nullish"
           THEN [blank EXCEPT !.pc = "threw", !.error = "TypeError",
                              !.at = Max(fc.at, fl.at)]
           ELSE [pc |-> "returned", error |-> "none", character |-> fc.data.entity,
                 locations |-> fl.data, deferred |-> TRUE, at |-> Max(fc.at, fl.at)]
      ELSE [blank EXCEPT !.pc = "awaiting"]

\* C19: in every reachable state the deferred promise is a function of the
\* deferred fetch and its floor timer only, and the loader's position and
\* outcome a function of the two critical fetches only; so runs that agree on
\* the deferred fetch show the same deferred promise whatever the critical
\* fetches do, and runs that agree on the critical fetches show the same
\* loader outcome whatever the deferred fetch does.
C19_Independence ==
  /\ episodesPromise = HandleOf(fetch["episodes"], timer)
  /\ loader = LoaderOf(fetch["character"], fetch["locations"])

\* A critical fetch rejected and the loader threw, while the deferred promise
\* was fulfilled with episodes; the deferred fetch completed after the loader
\* had thrown.
C19_Witness ==
  /\ loader.pc = "threw"
  /\ loader.error = "FetchError"
  /\ episodesPromise.state = "fulfilled"
  /\ Usable(episodesPromise.value)
  /\ fetch["episodes"].at > loader.at

\* ------------------------------------------------- query gateway and cache
\* Several query() calls, as concurrent loaders make them, against one client
\* and its cache.  The repository holds two versions of query(): they differ
\* in the cache key handed to withCache.
Builds == {"part_003", "part_004"}

GatewayDocuments == {"characterQuery", "deferredEpisodesQuery"}

GatewayVariables == { [defined |-> TRUE, id |-> "1"], [defined |-> TRUE, id |-> "2"] }

CachePolicies == {"CacheNone", "CacheShort", "CacheLong"}

\* JSON.stringify(options.variables): an undefined id is left out.
Stringify(variables) ==
  IF variables.defined THEN <<"{", "\"id\"", ":", variables.id, "}">> ELSE <<"{", "}">>

\* The key query() hands to withCache.
CacheKey(build, document, variables) ==
  IF build = "part_004" THEN <<"r&m", document>>
  ELSE <<"r&m", document, Stringify(variables)>>

\* json.data of the upstream's ok response to a document and its variables.
AnswerFor(document, variables) ==
  Payload("object", "object", "array", <<[id |-> variables.id, name |-> document]>>)

\* withCache(key, strategy, fn): with a caching strategy a stored entry under
\* the key is returned and fn is not run; the result of fn is stored.
CacheHit(cache, key, policy) == policy # "CacheNone" /\ \E e \in cache : e.key = key

Cached(cache, key) == (CHOOSE e \in cache : e.key = key).data

Store(cache, key, policy, data) ==
  IF policy = "CacheNone" THEN cache
  ELSE {e \in cache : e.key # key} \cup {[key |-> key, data |-> data]}

composerVars == <<now, params, issued, fetch, timer, episodesPromise, all, loader, view>>

\* createRickAndMortyClient({cache, waitUntil}).
GatewayCreate ==
  /\ gateway.build = "none"
  /\ \E b \in Builds : gateway' = [gateway EXCEPT !.build = b]
  /\ UNCHANGED composerVars

\* query(document, {variables, cache}): served from the cache, or sent upstream.
GatewayQuery ==
  /\ gateway.build # "none"
  /\ Len(gateway.requests) < MaxCalls
  /\ \E document \in GatewayDocuments, variables \in GatewayVariables, policy \in CachePolicies :
       LET key == CacheKey(gateway.build, document, variables)
           hit == CacheHit(gateway.cache, key, policy)
       IN  gateway' = [gateway EXCEPT
             !.requests = Append(@, [document |-> document, variables |-> variables,
                                     cache |-> policy, key |-> key]),
             !.responses = Append(@, IF hit THEN "cached" ELSE "none"),
             !.calls = Append(@, IF hit
                                 THEN [state |-> "fulfilled",
                                       data |-> Cached(gateway.cache, key), at |-> now]
                                 ELSE [IdleFetch EXCEPT !.state = "inflight"])]
  /\ UNCHANGED composerVars

\* The upstream answers a call with an ok response.
GatewayFulfil ==
  /\ \E c \in 1..Len(gateway.calls) :
       /\ gateway.calls[c].state = "inflight"
       /\ LET r == gateway.requests[c]
              data == AnswerFor(r.document, r.variables)
          IN  gateway' = [gateway EXCEPT
                !.responses[c] = "ok",
                !.calls = Respond(@, c, TRUE, data, now),
                !.cache = Store(@, r.key, r.cache, data)]
  /\ UNCHANGED composerVars

\* The upstream answers a call with a non-ok response.
GatewayReject ==
  /\ \E c \in 1..Len(gateway.calls) :
       /\ gateway.calls[c].state = "inflight"
       /\ gateway' = [gateway EXCEPT
            !.responses[c] = "non-ok",
            !.calls = Respond(@, c, FALSE, NoPayload, now)]
  /\ UNCHANGED composerVars

\* A stored entry reaches the end of its cache strategy's lifetime.
GatewayExpire ==
  /\ \E e \in gateway.cache : gateway' = [gateway EXCEPT !.cache = @ \ {e}]
  /\ UNCHANGED composerVars

GatewayNext ==
  \/ GatewayCreate
  \/ GatewayQuery
  \/ GatewayFulfil
  \/ GatewayReject
  \/ GatewayExpire

GatewaySpec == Init /\ [][GatewayNext]_vars

\* C14: a call whose upstream response was non-ok is rejected and carries no
\* data, the same record whatever cache policy it was made with; and no cache
\* entry holds the outcome of a non-ok response.
C14_NonOkRejects ==
  /\ \A c \in 1..Len(gateway.calls) :
       gateway.responses[c] = "non-ok" =>
         /\ gateway.calls[c].state = "rejected"
         /\ gateway.calls[c].data = NoPayload
         /\ \A d \in 1..Len(gateway.calls) :
              gateway.responses[d] = "non-ok" =>
                [gateway.calls[d] EXCEPT !.at = 0] = [gateway.calls[c] EXCEPT !.at = 0]
  /\ \A e \in gateway.cache : e.data # NoPayload

\* Two calls made with different cache policies, one of them caching, both
\* answered non-ok and both rejected.
C14_Witness ==
  /\ Len(gateway.calls) >= 2
  /\ gateway.requests[1].cache = "CacheNone"
  /\ gateway.requests[2].cache = "CacheLong"
  /\ gateway.responses[1] = "non-ok"
  /\ gateway.responses[2] = "non-ok"
  /\ gateway.calls[2].state = "rejected"

\* C15: every call that is fulfilled holds the upstream's answer to its own
\* document and variables, and two calls with the same document and different
\* ids never use the same cache key.
C15_NoCrossRequestResult ==
  /\ \A c \in 1..Len(gateway.calls) :
       gateway.calls[c].state = "fulfilled" =>
         gateway.calls[c].data =
           AnswerFor(gateway.requests[c].document, gateway.requests[c].variables)
  /\ \A c, d \in 1..Len(gateway.requests) :
       (/\ gateway.requests[c].document = gateway.requests[d].document
        /\ gateway.requests[c].variables # gateway.requests[d].variables)
         => gateway.requests[c].key # gateway.requests[d].key

\* The loader step that throws: the awaited join rejected, or the
\* destructuring of a critical result failed.
LoaderFails == loader.pc = "awaiting" /\ loader'.pc = "threw"

\* C21: the deferred query is the first one issued, ahead of both critical
\* queries; the step in which the loader fails leaves the deferred fetch, its
\* floor timer and the deferred promise as they were; after the failure the
\* deferred fetch only ever changes by receiving its own response and the
\* deferred promise stays the one pMinDelay derives from that fetch and the
\* timer; and once the loader has failed the promise is never handed to
\* defer, so no page and no episodes section is ever rendered from it.
C21_DeferredOutlivesLoaderFailure ==
  /\ [](loader.pc # "init" =>
          /\ IssuedAt("episodes") = 1
          /\ \A q \in Critical : IssuedAt("episodes") < IssuedAt(q))
  /\ [][LoaderFails =>
          /\ fetch'["episodes"] = fetch["episodes"]
          /\ timer' = timer
          /\ episodesPromise' = episodesPromise]_vars
  /\ [][(loader.pc = "threw" /\ fetch'["episodes"] # fetch["episodes"]) =>
          /\ fetch["episodes"].state = "inflight"
          /\ fetch'["episodes"].state \in Settled
          /\ fetch'["episodes"].at = now]_vars
  /\ [](loader.pc = "threw" =>
          /\ episodesPromise = HandleOf(fetch["episodes"], timer)
          /\ ~loader.deferred
          /\ view.page # "page"
          /\ view.saw = "none"
          /\ view.section = NoSection)

\* A critical fetch rejected and the loader failed while the deferred fetch
\* was in flight; the deferred fetch was answered later, the deferred promise
\* settled with that answer after the floor, and the error page is on screen
\* with no episodes section.
C21_Witness ==
  /\ loader.pc = "threw"
  /\ loader.error = "FetchError"
  /\ fetch["episodes"].state = "fulfilled"
  /\ fetch["episodes"].at > loader.at
  /\ episodesPromise.state = "fulfilled"
  /\ episodesPromise.at > loader.at
  /\ ~loader.deferred
  /\ view.page = "errorPage"
  /\ view.section = NoSection

\* The critical fetches that have rejected.
RejectedCritical == {q \in Critical : fetch[q].state = "rejected"}

\* C22: whenever a critical fetch has rejected, the join is rejected and the
\* loader has thrown at the time of the earliest critical rejection, whatever
\* the state of the other critical fetch (in flight, fulfilled or rejected);
\* the join rejects in the very step in which a critical fetch rejects, with
\* that fetch as its reason; and once the loader has thrown, neither the
\* loader nor the join changes again, so a later critical outcome is ignored.
C22_FailFastJoin ==
  /\ [](RejectedCritical # {} =>
          /\ all.state = "rejected"
          /\ all.reason \in RejectedCritical
          /\ \A q \in RejectedCritical : fetch[all.reason].at <= fetch[q].at
          /\ all.at = fetch[all.reason].at
          /\ loader.pc = "threw"
          /\ loader.error = "FetchError"
          /\ loader.at = all.at)
  /\ [][(all.state = "pending" /\ all'.state = "rejected") =>
          /\ fetch[all'.reason].state = "inflight"
          /\ fetch'[all'.reason].state = "rejected"
          /\ loader.pc = "awaiting"
          /\ loader'.pc = "threw"]_vars
  /\ [][loader.pc = "threw" => (loader' = loader /\ all' = all)]_vars

\* Both critical fetches rejected, the locations fetch first: the loader threw
\* at that moment, while the character fetch was still in flight, and the
\* character fetch's later rejection left the loader and the join untouched.
C22_Witness ==
  /\ fetch["locations"].state = "rejected"
  /\ fetch["character"].state = "rejected"
  /\ fetch["locations"].at < fetch["character"].at
  /\ all.state = "rejected"
  /\ all.reason = "locations"
  /\ loader.pc = "threw"
  /\ loader.at = fetch["locations"].at

====
